---- MODULE Spec2Model ----
(***************************************************************************)
(* Model of transcribe_audio.py: the batch loop of __main__, the caption   *)
(* generation of save_caption_file, and the helpers format_timestamp and   *)
(* _generate_caption_block.                                                *)
(*                                                                         *)
(* Representation.  A text is a sequence of one-character strings.  A time *)
(* is a whole number of milliseconds; the source holds it as a float of    *)
(* seconds, and format_timestamp is computed as on that float.  A Python   *)
(* attribute is a record with a tag: "absent" (hasattr is false), "none"   *)
(* (the attribute is None) or "val" (a value v).                           *)
(***************************************************************************)
EXTENDS Integers, Sequences, FiniteSets, TLC

(***************************************************************************)
(* Bounds of the model.                                                    *)
(***************************************************************************)
MaxFiles == 2
MaxSegments == 2
MaxWords == 2
MaxSentences == 2

(***************************************************************************)
(* Program constants.                                                      *)
(***************************************************************************)
DefaultMaxCaptionChars == 100
SmallMaxCaptionChars == 4

(***************************************************************************)
(* Attribute values.                                                       *)
(***************************************************************************)
Absent == [tag |-> "absent"]
PyNone == [tag |-> "none"]
Val(x) == [tag |-> "val", v |-> x]
HasValue(a) == a.tag = "val"

(***************************************************************************)
(* Texts.                                                                  *)
(***************************************************************************)
Whitespace == {" "}
SentenceEnd == {".", "?", "!"}

RECURSIVE LStrip(_)
LStrip(s) ==
    IF s # <<>> /\ Head(s) \in Whitespace THEN LStrip(Tail(s)) ELSE s

RECURSIVE RStrip(_)
RStrip(s) ==
    IF s # <<>> /\ s[Len(s)] \in Whitespace
    THEN RStrip(SubSeq(s, 1, Len(s) - 1))
    ELSE s

\* str.strip()
Strip(s) == RStrip(LStrip(s))

\* " ".join(parts)
RECURSIVE JoinSpace(_)
JoinSpace(parts) ==
    IF parts = <<>> THEN <<>>
    ELSE IF Len(parts) = 1 THEN parts[1]
    ELSE parts[1] \o <<" ">> \o JoinSpace(Tail(parts))

\* word_text_for_line[-1] in ".?!"  (guarded by a non-empty text)
EndsSentence(text) == text # <<>> /\ text[Len(text)] \in SentenceEnd

(***************************************************************************)
(* format_timestamp: the fields of HH:MM:SS<sep>mmm.                       *)
(*                                                                         *)
(* total_seconds is a float: the double nearest to total_ms / 1000.  With  *)
(* S whole seconds and k further milliseconds (0 < k < 1000) the double    *)
(* keeps n = 53 - BitLength(S) bits of the fraction k / 1000 and rounds    *)
(* the rest to nearest.  'total_seconds - int(total_seconds)' is exact,    *)
(* so the product of line 24 is k + d / 2^n before its own rounding, where *)
(* d / 2^n is 1000 times the error of the fraction: int() gives k - 1 when *)
(* the fraction was rounded down and the product does not round back to k. *)
(* The divisions and remainders of lines 21-23 are exact for these values. *)
(***************************************************************************)
RECURSIVE BitLength(_)
BitLength(x) == IF x = 0 THEN 0 ELSE 1 + BitLength(x \div 2)

RECURSIVE Pow2(_)
Pow2(e) == IF e = 0 THEN 1 ELSE 2 * Pow2(e - 1)

\* the zero bits between the binary point and the first one bit of k / 1000
RECURSIVE LeadingZeroBits(_)
LeadingZeroBits(x) == IF 2 * x >= 1000 THEN 0 ELSE 1 + LeadingZeroBits(2 * x)

\* After n more bits of the binary expansion of r / 1000: what is left of
\* the fraction (in 1 / 1000 of the last bit) and the last bit produced.
RECURSIVE FractionBits(_, _, _)
FractionBits(r, last, n) ==
    IF n = 0 THEN [rest |-> r, last |-> last]
    ELSE IF 2 * r >= 1000 THEN FractionBits(2 * r - 1000, 1, n - 1)
    ELSE FractionBits(2 * r, 0, n - 1)

\* line 24: int((total_seconds - int(total_seconds)) * 1000)
Milliseconds(t) ==
    LET S == t \div 1000
        k == t % 1000
        b == IF S >= 1 THEN BitLength(S) ELSE 0 - LeadingZeroBits(k)
        f == FractionBits(k, 0, 53 - b)
        rounded_up == 2 * f.rest > 1000 \/ (2 * f.rest = 1000 /\ f.last = 1)
        j == BitLength(k)
        \* half the spacing of the doubles below k, in units of 2^-n
        ex == j - b - (IF k = Pow2(j - 1) THEN 2 ELSE 1)
        rounds_back == ex >= 0 /\ f.rest <= Pow2(ex)
    IN  IF k = 0 \/ f.rest = 0 \/ rounded_up \/ rounds_back THEN k ELSE k - 1

format_timestamp(total_ms, srt_format) ==
    LET t == IF total_ms < 0 THEN 0 ELSE total_ms
    IN  [hours        |-> t \div 3600000,
         minutes      |-> (t % 3600000) \div 60000,
         seconds      |-> (t % 60000) \div 1000,
         milliseconds |-> Milliseconds(t),
         separator    |-> IF srt_format THEN "," ELSE "."]

(***************************************************************************)
(* getattr(obj, name, default) as _generate_caption_block uses it: a dict  *)
(* has no attributes, so the default is returned for it.                   *)
(***************************************************************************)
GetAttr(obj, name, default) ==
    IF obj.kind = "dict" \/ obj[name].tag = "absent" THEN default ELSE obj[name]

\* One caption block as a record of the parts of its text form.
CaptionBlock(sequence_num, output_format, start_ts, end_ts, text) ==
    IF output_format = "srt"
    THEN [format |-> "srt", num |-> sequence_num,
          start_ts |-> start_ts, end_ts |-> end_ts, text |-> text]
    ELSE [format |-> "webvtt",
          start_ts |-> start_ts, end_ts |-> end_ts, text |-> text]

\* text_parts of _generate_caption_block: one entry per word, an attribute
\* value each (a "none" entry makes str.join raise TypeError).
TextPart(w_obj) ==
    LET p_word   == GetAttr(w_obj, "punctuated_word", PyNone)
        word_val == GetAttr(w_obj, "word", Val(<<>>))
    IN  IF p_word.tag # "none" THEN p_word ELSE word_val

_generate_caption_block(words_in_block, sequence_num, output_format) ==
    IF words_in_block = <<>> THEN [status |-> "empty"]
    ELSE
      LET first_word_obj == words_in_block[1]
          last_word_obj  == words_in_block[Len(words_in_block)]
          start_attr     == GetAttr(first_word_obj, "start", Val(0))
          start_time_val == IF HasValue(start_attr) THEN start_attr.v ELSE 0
          end_attr       == GetAttr(last_word_obj, "end", Val(start_time_val))
          end_time_val   == IF HasValue(end_attr)
                            THEN (IF end_attr.v < start_time_val
                                  THEN start_time_val ELSE end_attr.v)
                            ELSE start_time_val
          text_parts     == [k \in 1..Len(words_in_block) |->
                                TextPart(words_in_block[k])]
          is_srt         == output_format = "srt"
      IN  IF \E k \in 1..Len(text_parts) : ~HasValue(text_parts[k])
          THEN [status |-> "raise"]
          ELSE [status |-> "block",
                block  |-> CaptionBlock(sequence_num, output_format,
                             format_timestamp(start_time_val, is_srt),
                             format_timestamp(end_time_val, is_srt),
                             JoinSpace([k \in 1..Len(text_parts) |-> text_parts[k].v]))]

(***************************************************************************)
(* Input pools: the values the environment may hand to the program.        *)
(***************************************************************************)
Word(punctuated_word, word, start, end) ==
    [kind |-> "object", punctuated_word |-> punctuated_word, word |-> word,
     start |-> start, end |-> end]

\* no punctuated form: the text falls back to 'word'
WordPlain   == Word(PyNone, Val(<<"a", "b">>), Val(1000), Val(2000))
\* ends a sentence, and its end lies before its start
WordStop    == Word(Val(<<"c", ".">>), Val(<<"c">>), Val(2000), Val(1500))
\* an empty punctuated form
WordEmpty   == Word(Val(<<>>), Val(<<"x">>), Val(3000), Val(3500))
WordNoStart == Word(Val(<<"d">>), Val(<<"d">>), PyNone, Val(2500))
WordNoEnd   == Word(Val(<<"e", "e">>), Val(<<"e", "e">>), Val(2500), Absent)
\* both text attributes are None
WordNoText  == Word(PyNone, PyNone, Val(3500), Val(3600))

WordPool == {WordPlain, WordStop, WordEmpty, WordNoStart, WordNoEnd, WordNoText}

\* The words Hello, world., Next, sentence.
ExampleWords ==
    << Word(Val(<<"H","e","l","l","o">>), Val(<<"h","e","l","l","o">>),
            Val(0), Val(400)),
       Word(Val(<<"w","o","r","l","d",".">>), Val(<<"w","o","r","l","d">>),
            Val(500), Val(900)),
       Word(Val(<<"N","e","x","t">>), Val(<<"n","e","x","t">>),
            Val(1200), Val(1500)),
       Word(Val(<<"s","e","n","t","e","n","c","e",".">>),
            Val(<<"s","e","n","t","e","n","c","e">>), Val(1600), Val(2300)) >>

\* The words a, bc, d, e: one after the other, 100 ms each
PackingWords ==
    << Word(Val(<<"a">>), Val(<<"a">>), Val(0), Val(100)),
       Word(Val(<<"b","c">>), Val(<<"b","c">>), Val(200), Val(300)),
       Word(Val(<<"d">>), Val(<<"d">>), Val(400), Val(500)),
       Word(Val(<<"e">>), Val(<<"e">>), Val(600), Val(700)) >>

PackingTranscript == <<"a"," ","b","c"," ","d"," ","e">>

ExampleTranscript ==
    <<"H","e","l","l","o"," ","w","o","r","l","d","."," ",
      "N","e","x","t"," ","s","e","n","t","e","n","c","e",".">>

SeqsUpTo(S, n) == UNION {[1..k -> S] : k \in 0..n}

WordLists == SeqsUpTo(WordPool, MaxWords)

Utterance(transcript, start, end, words) ==
    [transcript |-> transcript, start |-> start, end |-> end, words |-> words]

TranscriptPool ==
    {Val(<<" ">>), Val(<<"a", "b">>), Val(<<"a", "b", " ", "c", ".", " ">>), PyNone}

\* <<start, end>> of an utterance or a paragraph
SpanPool == {<<Val(1000), Val(4000)>>, <<Val(4000), Val(1000)>>, <<Absent, Val(4000)>>}

\* Every header without words, every word list under the headers that read
\* it, and the two examples.
UtterancePool ==
    {Utterance(t, sp[1], sp[2], <<>>) : t \in TranscriptPool, sp \in SpanPool}
    \cup {Utterance(t, Val(1000), Val(4000), ws) :
            t \in {Val(<<"a", "b">>), Val(<<"a", "b", " ", "c", ".", " ">>)},
            ws \in WordLists \ {<<>>}}
    \cup {Utterance(Val(ExampleTranscript), Val(0), Val(2300), ExampleWords),
          Utterance(Val(PackingTranscript), Val(0), Val(700), PackingWords)}

Sentence(text, start, end) == [text |-> text, start |-> start, end |-> end]

SentencePool ==
    {Sentence(Val(<<"a", ".">>), Val(1000), Val(2000)),
     Sentence(Val(<<"b", "?", " ">>), Val(3000), Val(2000)),
     Sentence(Val(<<"c">>), Absent, Absent),
     Sentence(Val(<<" ">>), Val(1000), Val(2000)),
     Sentence(Absent, Val(1000), Val(2000))}

Paragraph(start, end, sentences) ==
    [start |-> start, end |-> end, sentences |-> sentences]

ParagraphPool ==
    {Paragraph(sp[1], sp[2], ss) :
        sp \in SpanPool, ss \in SeqsUpTo(SentencePool, MaxSentences)}

(***************************************************************************)
(* The transcription response, as far as save_caption_file probes it.      *)
(* A list is held as its emptiness; its members are drawn when the segment *)
(* loop reaches them.                                                      *)
(***************************************************************************)
EmptyList    == [tag |-> "list", nonempty |-> FALSE]
NonEmptyList == [tag |-> "list", nonempty |-> TRUE]
NotAList     == [tag |-> "other"]
\* results_data.channels is a dict without the key 0: channels[0] raises KeyError
KeyErrorPath == [tag |-> "keyerror"]

\* results    : "absent" (no .results), "none" (.results is None) or "present"
\* direct     : without .results, the response itself has .utterances and .channels
\* utterances : results_data.utterances
\* nested     : results_data.channels[0].alternatives[0].utterances
\* paragraphs : results_data.channels[0].alternatives[0].paragraphs.paragraphs
Response(results, direct, utterances, nested, paragraphs) ==
    [tag |-> "response", results |-> results, direct |-> direct,
     utterances |-> utterances, nested |-> nested, paragraphs |-> paragraphs]

ResponsePool ==
    {Response("absent", FALSE, Absent, Absent, Absent),
     Response("none", FALSE, Absent, Absent, Absent),
     Response("absent", TRUE, NonEmptyList, Absent, Absent),
     Response("present", FALSE, PyNone, KeyErrorPath, Absent)}
    \cup {Response("present", FALSE, u, n, p) :
            u \in {Absent, NotAList, EmptyList, NonEmptyList},
            n \in {Absent, EmptyList, NonEmptyList},
            p \in {Absent, EmptyList, NonEmptyList}}

FormatPool == {"srt", "webvtt"}

\* --output: not given, or a path (a path is not the empty string)
OutputPath == [kind |-> "output"]
InputPath(i, output_format) == [kind |-> "input", base |-> i, ext |-> output_format]
OutputPool == {PyNone, Val(OutputPath)}

\* the times format_timestamp is applied to on its own, in milliseconds
MaxTimestampMillis == 1300
TimestampPool ==
    (-2..MaxTimestampMillis) \cup {2300, 3725256, 86399999, 90000000, 360000001}
MaxCaptionCharsPool == {SmallMaxCaptionChars, DefaultMaxCaptionChars}

(***************************************************************************)
(* State.                                                                  *)
(***************************************************************************)
VARIABLES
    args,                           \* the parsed command line
    total_seconds,                  \* the argument of a call of format_timestamp
    timestamp,                      \* the value that call returned
    pc,                             \* position in __main__ / save_caption_file
    file_idx,                       \* i + 1 of the batch loop
    attempted,                      \* the files the loop has started, in order
    files_processed_successfully,
    files_failed,
    exit_status,
    transcription_response_obj,
    saved_successfully,             \* the value save_caption_file returned
    warnings,                       \* the WARNING and Error lines of the current call
    caption_source_is_paragraphs,
    final_caption_blocks,
    srt_sequence_number,
    processed_segments_count,
    segment_idx,                    \* segments taken from segments_to_process
    segment_data,
    blocks_at_segment_start,        \* len(final_caption_blocks) at the loop head
    item_idx,                       \* word_idx, or the sentence's position
    sentence_data_bound,            \* the local 'sentence_data' has a value
    current_line_words,
    current_char_count,
    caption_content,
    output_filename_final,
    written                         \* what the call wrote to its output file

timestamp_vars == <<total_seconds, timestamp>>
main_vars == <<args, timestamp_vars, file_idx, attempted, files_processed_successfully,
               files_failed, exit_status>>
segment_vars == <<segment_idx, segment_data, blocks_at_segment_start, item_idx,
                  sentence_data_bound, current_line_words, current_char_count>>
block_vars == <<final_caption_blocks, srt_sequence_number, processed_segments_count>>
file_vars == <<output_filename_final, written>>
save_vars == <<warnings, caption_source_is_paragraphs, block_vars, segment_vars,
               caption_content, file_vars>>
vars == <<main_vars, pc, transcription_response_obj, saved_successfully, save_vars>>

NoValue == [tag |-> "unset"]

\* The locals of save_caption_file before the call and after its return.
SaveLocalsCleared ==
    /\ warnings = {}
    /\ caption_source_is_paragraphs = FALSE
    /\ final_caption_blocks = <<>>
    /\ srt_sequence_number = 1
    /\ processed_segments_count = 0
    /\ segment_idx = 0
    /\ segment_data = NoValue
    /\ blocks_at_segment_start = 0
    /\ item_idx = 0
    /\ sentence_data_bound = FALSE
    /\ current_line_words = <<>>
    /\ current_char_count = 0
    /\ caption_content = <<>>
    /\ output_filename_final = NoValue
    /\ written = NoValue

ClearSaveLocals ==
    /\ warnings' = {}
    /\ caption_source_is_paragraphs' = FALSE
    /\ final_caption_blocks' = <<>>
    /\ srt_sequence_number' = 1
    /\ processed_segments_count' = 0
    /\ segment_idx' = 0
    /\ segment_data' = NoValue
    /\ blocks_at_segment_start' = 0
    /\ item_idx' = 0
    /\ sentence_data_bound' = FALSE
    /\ current_line_words' = <<>>
    /\ current_char_count' = 0
    /\ caption_content' = <<>>
    /\ output_filename_final' = NoValue
    /\ written' = NoValue

ArgsPool ==
    [audio_file : 1..MaxFiles, format : FormatPool, output : OutputPool,
     paragraphs : BOOLEAN, max_caption_chars : MaxCaptionCharsPool,
     split_on_sentences : BOOLEAN]

Init ==
    /\ args \in ArgsPool
    /\ total_seconds = 0
    /\ timestamp = NoValue
    /\ pc = "loop"
    /\ file_idx = 1
    /\ attempted = <<>>
    /\ files_processed_successfully = 0
    /\ files_failed = 0
    /\ exit_status = NoValue
    /\ transcription_response_obj = NoValue
    /\ saved_successfully = FALSE
    /\ SaveLocalsCleared

(***************************************************************************)
(* save_caption_file, lines 151-233: locating the utterance list.          *)
(***************************************************************************)
\* (variant: the response is taken for the results data whenever it has no
\* .results, without looking for .utterances and .channels)
HasResultsData_Unchecked(resp) ==
    resp.results = "present" \/ resp.results = "absent"

\* results_data can be taken from the response
HasResultsData(resp) ==
    \/ resp.results = "present"
    \/ resp.results = "absent" /\ resp.direct

IsEmptyOrNone(l) == l.tag = "none" \/ (l.tag = "list" /\ ~l.nonempty)

\* the value of 'utterances' after the primary path
PrimaryUtterances(resp) ==
    IF resp.utterances.tag = "list" THEN resp.utterances ELSE PyNone

\* the nested path is entered and channels[0] raises KeyError
NestedPathRaises(resp) ==
    IsEmptyOrNone(PrimaryUtterances(resp)) /\ resp.nested.tag = "keyerror"

\* the value of 'utterances' after the nested path
LocatedUtterances(resp) ==
    LET utterances == PrimaryUtterances(resp)
    IN  IF IsEmptyOrNone(utterances) /\ resp.nested.tag = "list"
        THEN resp.nested
        ELSE utterances

\* (variant: an empty paragraph list is used too)
UseParagraphs_AnyList(resp, enable_paragraphs_option_used) ==
    /\ enable_paragraphs_option_used
    /\ resp.paragraphs.tag = "list"

\* lines 241-264: the paragraph list is used
UseParagraphs(resp, enable_paragraphs_option_used) ==
    /\ enable_paragraphs_option_used
    /\ resp.paragraphs.tag = "list"
    /\ resp.paragraphs.nonempty

(***************************************************************************)
(* The caption content as a sequence of items: the WEBVTT header line, a   *)
(* blank line, or the lines of one caption block.                          *)
(***************************************************************************)
HeaderLine == [kind |-> "header"]
BlankLine  == [kind |-> "blank"]
BlockLines(b) == [kind |-> "block", block |-> b]

\* "\n\n".join(final_caption_blocks)
RECURSIVE JoinBlocks(_)
JoinBlocks(blocks) ==
    IF blocks = <<>> THEN <<>>
    ELSE IF Len(blocks) = 1 THEN <<BlockLines(blocks[1])>>
    ELSE <<BlockLines(blocks[1]), BlankLine>> \o JoinBlocks(Tail(blocks))

\* lines 448-453
CaptionContent(blocks, output_format) ==
    IF output_format = "srt"
    THEN JoinBlocks(blocks) \o (IF blocks # <<>> THEN <<BlankLine>> ELSE <<>>)
    ELSE <<HeaderLine, BlankLine>> \o JoinBlocks(blocks)
         \o (IF blocks # <<>> THEN <<BlankLine>> ELSE <<>>)

\* line 274-276: nothing to process, caption_content keeps its value of line 147
NoSegmentsContent(output_format) == <<>>

(***************************************************************************)
(* __main__: the batch loop.                                               *)
(***************************************************************************)
\* lines 538-567: the next file is taken and transcribe_audio_local returns
\* None or a response
Transcribe ==
    /\ pc = "loop"
    /\ file_idx <= args.audio_file
    /\ attempted' = Append(attempted, file_idx)
    /\ \E r \in ResponsePool \cup {PyNone} : transcription_response_obj' = r
    /\ pc' = "transcribed"
    /\ UNCHANGED <<args, timestamp_vars, file_idx, files_processed_successfully, files_failed,
                   exit_status, saved_successfully, save_vars>>

\* lines 546-560: the dummy input cannot be created
DummyCreationFails ==
    /\ pc = "loop"
    /\ file_idx <= args.audio_file
    /\ attempted' = Append(attempted, file_idx)
    /\ files_failed' = files_failed + 1
    /\ file_idx' = file_idx + 1
    /\ UNCHANGED <<args, timestamp_vars, pc, files_processed_successfully, exit_status,
                   transcription_response_obj, saved_successfully, save_vars>>

\* (variant: a failed transcription ends the batch)
TranscriptionFailed_EndsBatch ==
    /\ pc = "transcribed"
    /\ transcription_response_obj.tag = "none"
    /\ files_failed' = files_failed + 1
    /\ file_idx' = args.audio_file + 1
    /\ pc' = "loop"
    /\ transcription_response_obj' = NoValue
    /\ UNCHANGED <<args, timestamp_vars, attempted, files_processed_successfully, exit_status,
                   saved_successfully, save_vars>>

\* lines 585-587
TranscriptionFailed ==
    /\ pc = "transcribed"
    /\ transcription_response_obj.tag = "none"
    /\ files_failed' = files_failed + 1
    /\ file_idx' = file_idx + 1
    /\ pc' = "loop"
    /\ transcription_response_obj' = NoValue
    /\ UNCHANGED <<args, timestamp_vars, attempted, files_processed_successfully, exit_status,
                   saved_successfully, save_vars>>

\* (variant: the override is handed on for every input file)
CurrentFileOutputPath_Always(n_files, output) == output

\* lines 541-543: the override is handed on for a single input file only
CurrentFileOutputPath(n_files, output) ==
    IF n_files = 1 THEN output ELSE PyNone

\* lines 129-145: the override, else the input's path with the format as its
\* extension
OutputFilenameFinal(output_file_path, input_audio_path, output_format) ==
    IF output_file_path.tag = "val" THEN output_file_path.v
    ELSE InputPath(input_audio_path, output_format)

\* the WARNING lines of lines 229, 257-263 and 275
SaveWarnings(resp, enable_paragraphs_option_used) ==
    LET utterances == LocatedUtterances(resp)
        paragraphs == UseParagraphs(resp, enable_paragraphs_option_used)
        nonempty == paragraphs \/ (utterances.tag = "list" /\ utterances.nonempty)
    IN  (IF utterances.tag = "none" THEN {"no_utterances"} ELSE {})
        \cup (IF enable_paragraphs_option_used /\ ~paragraphs
              THEN {"paragraph_fallback"} ELSE {})
        \cup (IF ~nonempty THEN {"no_segments"} ELSE {})

\* lines 569-579 and 122-277: save_caption_file up to the segment loop, with
\* the paragraphs option and the warnings it prints as parameters.  No line of
\* the segment loop reads the response: it leaves the state when the loop is
\* entered.
SaveBeginStep(enable_paragraphs_option_used, new_warnings) ==
    /\ pc = "transcribed"
    /\ transcription_response_obj.tag = "response"
    /\ LET resp == transcription_response_obj
           output_file_path == CurrentFileOutputPath(args.audio_file, args.output)
           utterances == LocatedUtterances(resp)
           paragraphs == UseParagraphs(resp, enable_paragraphs_option_used)
           nonempty == paragraphs \/ (utterances.tag = "list" /\ utterances.nonempty)
       IN  \/ \* lines 137-142: the directory of the override cannot be created
              /\ output_file_path.tag = "val"
              /\ output_filename_final' =
                    OutputFilenameFinal(output_file_path, file_idx, args.format)
              /\ warnings' = {"mkdir_failed"}
              /\ pc' = "returned"
              /\ saved_successfully' = FALSE
              /\ UNCHANGED <<main_vars, transcription_response_obj,
                             caption_source_is_paragraphs, block_vars,
                             segment_vars, caption_content, written>>
           \/ /\ transcription_response_obj' =
                    IF HasResultsData(resp) /\ (NestedPathRaises(resp) \/ nonempty)
                    THEN NoValue ELSE resp
              /\ IF ~HasResultsData(resp)
                 THEN \* lines 160, 164: return False
                      /\ output_filename_final' =
                            OutputFilenameFinal(output_file_path, file_idx, args.format)
                      /\ pc' = "returned"
                      /\ saved_successfully' = FALSE
                      /\ UNCHANGED <<main_vars, warnings,
                                     caption_source_is_paragraphs, block_vars,
                                     segment_vars, caption_content, written>>
                 ELSE IF NestedPathRaises(resp)
                 THEN \* the KeyError leaves save_caption_file: lines 589-591
                      /\ pc' = "loop"
                      /\ files_failed' = files_failed + 1
                      /\ file_idx' = file_idx + 1
                      /\ UNCHANGED <<args, timestamp_vars, attempted, files_processed_successfully,
                                     exit_status, saved_successfully, save_vars>>
                 ELSE /\ output_filename_final' =
                            OutputFilenameFinal(output_file_path, file_idx, args.format)
                      /\ warnings' = new_warnings
                      /\ caption_source_is_paragraphs' = paragraphs
                      /\ caption_content' =
                           IF nonempty THEN caption_content
                           ELSE NoSegmentsContent(args.format)
                      /\ pc' = IF nonempty THEN "segments" ELSE "write"
                      /\ UNCHANGED <<main_vars, saved_successfully, block_vars,
                                     segment_vars, written>>

SaveBegin ==
    SaveBeginStep(args.paragraphs,
                  SaveWarnings(transcription_response_obj, args.paragraphs))

(***************************************************************************)
(* save_caption_file, lines 278-442: the segment loop.                     *)
(***************************************************************************)
\* (variant: the number is never advanced)
NextSequenceNumber_Stuck(sequence_num, output_format) == sequence_num

\* 'if output_format.lower() == "srt": srt_sequence_number += 1'
NextSequenceNumber(sequence_num, output_format) ==
    IF output_format = "srt" THEN sequence_num + 1 ELSE sequence_num

\* line 328: the one-entry list handed to _generate_caption_block, a dict
MockWords(start_seconds, end_seconds, text) ==
    << [kind |-> "dict", start |-> start_seconds, end |-> end_seconds,
        word |-> Val(text), punctuated_word |-> Val(text)] >>

\* lines 343-348
WordTextForLine(word_info) ==
    IF HasValue(word_info.punctuated_word) THEN word_info.punctuated_word.v
    ELSE IF HasValue(word_info.word) THEN word_info.word.v
    ELSE <<>>

\* lines 350-360: the word is skipped for a missing start or end
WordSkipped(word_info) == ~HasValue(word_info.start) \/ ~HasValue(word_info.end)

\* (variant: the first character is tested instead of the last)
SentenceFlush_FirstChar(word_text_for_line, split_on_sentences) ==
    split_on_sentences /\ word_text_for_line # <<>>
                       /\ word_text_for_line[1] \in SentenceEnd

\* line 376
SentenceFlush(word_text_for_line, split_on_sentences) ==
    split_on_sentences /\ EndsSentence(word_text_for_line)

\* (variant: the length of the next word is not counted)
LengthFlush_WithoutWord(line_words, char_count, word_len, max_caption_chars) ==
    line_words # <<>> /\ char_count > max_caption_chars

\* lines 388-389
LengthFlush(line_words, char_count, word_len, max_caption_chars) ==
    LET potential_new_char_count ==
            char_count + word_len + (IF line_words # <<>> THEN 1 ELSE 0)
    IN  line_words # <<>> /\ potential_new_char_count > max_caption_chars

\* line 399, evaluated after the append of line 398
CharCountAfterAppend(char_count, word_len, line_words_after) ==
    char_count + word_len + (IF line_words_after # <<>> THEN 1 ELSE 0)

\* (variant: only a missing word list selects the simple path)
SimplePath_WordlessOnly(utterance_transcript_text, words_list, split_on_sentences, max_caption_chars) ==
    words_list = <<>>

\* line 322: the utterance becomes one block without looking at its words
SimplePath(utterance_transcript_text, words_list, split_on_sentences, max_caption_chars) ==
    \/ words_list = <<>>
    \/ ~split_on_sentences /\ Len(utterance_transcript_text) <= max_caption_chars

\* the segment loop moves on (loop end of line 441-442, or a 'continue')
LeaveSegment(count_it) ==
    /\ pc' = "segments"
    /\ processed_segments_count' =
          IF count_it THEN processed_segments_count + 1 ELSE processed_segments_count
    /\ item_idx' = 0
    /\ current_line_words' = <<>>
    /\ current_char_count' = 0

\* lines 278, 310-337: the next utterance; a textless one is skipped, the
\* simple path emits its block, the splitting path enters the word loop
ProcessUtterance ==
    /\ pc = "segments"
    /\ ~caption_source_is_paragraphs
    /\ segment_idx < MaxSegments
    /\ \E u \in UtterancePool :
        /\ segment_data' = u
        /\ segment_idx' = segment_idx + 1
        /\ blocks_at_segment_start' = Len(final_caption_blocks)
        /\ IF ~HasValue(u.transcript)
           THEN \* .strip() on a missing transcript: line 407, continue
                /\ LeaveSegment(FALSE)
                /\ UNCHANGED <<final_caption_blocks, srt_sequence_number>>
           ELSE
           LET utterance_transcript_text == Strip(u.transcript.v)
           IN  IF utterance_transcript_text = <<>>
               THEN \* line 317-319
                    /\ LeaveSegment(FALSE)
                    /\ UNCHANGED <<final_caption_blocks, srt_sequence_number>>
               ELSE IF SimplePath(utterance_transcript_text, u.words,
                                  args.split_on_sentences, args.max_caption_chars)
               THEN IF u.start.tag = "absent" \/ u.end.tag = "absent"
                    THEN \* AttributeError at line 324-325: line 407, continue
                         /\ LeaveSegment(FALSE)
                         /\ UNCHANGED <<final_caption_blocks, srt_sequence_number>>
                    ELSE
                    LET r == _generate_caption_block(
                                 MockWords(u.start, u.end, utterance_transcript_text),
                                 srt_sequence_number, args.format)
                    IN  /\ final_caption_blocks' = Append(final_caption_blocks, r.block)
                        /\ srt_sequence_number' =
                              NextSequenceNumber(srt_sequence_number, args.format)
                        /\ LeaveSegment(TRUE)
               ELSE \* lines 336-337
                    /\ pc' = "words"
                    /\ item_idx' = 1
                    /\ current_line_words' = <<>>
                    /\ current_char_count' = 0
                    /\ UNCHANGED block_vars
    /\ UNCHANGED <<main_vars, transcription_response_obj, saved_successfully,
                   warnings, caption_source_is_paragraphs, sentence_data_bound,
                   caption_content, file_vars>>

\* lines 379-385, 390-396, 402-406: the buffer becomes a block; a None among
\* its texts raises TypeError, which ends the utterance at line 407
FlushRaises(line_words) ==
    _generate_caption_block(line_words, srt_sequence_number, args.format).status = "raise"

FlushedBlocks(line_words) ==
    Append(final_caption_blocks,
           _generate_caption_block(line_words, srt_sequence_number, args.format).block)

\* lines 339-399: one iteration of the word loop
WordStep ==
    /\ pc = "words"
    /\ item_idx <= Len(segment_data.words)
    /\ LET word_info == segment_data.words[item_idx]
           word_text_for_line == WordTextForLine(word_info)
           word_len == Len(word_text_for_line)
       IN  IF WordSkipped(word_info)
           THEN /\ item_idx' = item_idx + 1
                /\ UNCHANGED <<pc, block_vars, current_line_words, current_char_count>>
           ELSE IF SentenceFlush(word_text_for_line, args.split_on_sentences)
           THEN LET line_words == Append(current_line_words, word_info)
                IN  IF FlushRaises(line_words)
                    THEN /\ LeaveSegment(FALSE)
                         /\ UNCHANGED <<final_caption_blocks, srt_sequence_number>>
                    ELSE /\ final_caption_blocks' = FlushedBlocks(line_words)
                         /\ srt_sequence_number' =
                               NextSequenceNumber(srt_sequence_number, args.format)
                         /\ current_line_words' = <<>>
                         /\ current_char_count' = 0
                         /\ item_idx' = item_idx + 1
                         /\ UNCHANGED <<pc, processed_segments_count>>
           ELSE IF LengthFlush(current_line_words, current_char_count, word_len,
                               args.max_caption_chars)
           THEN IF FlushRaises(current_line_words)
                THEN /\ LeaveSegment(FALSE)
                     /\ UNCHANGED <<final_caption_blocks, srt_sequence_number>>
                ELSE /\ final_caption_blocks' = FlushedBlocks(current_line_words)
                     /\ srt_sequence_number' =
                           NextSequenceNumber(srt_sequence_number, args.format)
                     /\ current_line_words' = <<word_info>>
                     /\ current_char_count' =
                           CharCountAfterAppend(0, word_len, <<word_info>>)
                     /\ item_idx' = item_idx + 1
                     /\ UNCHANGED <<pc, processed_segments_count>>
           ELSE /\ current_line_words' = Append(current_line_words, word_info)
                /\ current_char_count' =
                      CharCountAfterAppend(current_char_count, word_len,
                                           Append(current_line_words, word_info))
                /\ item_idx' = item_idx + 1
                /\ UNCHANGED <<pc, block_vars>>
    /\ UNCHANGED <<main_vars, transcription_response_obj, saved_successfully,
                   warnings, caption_source_is_paragraphs, segment_idx, segment_data,
                   blocks_at_segment_start, sentence_data_bound, caption_content,
                   file_vars>>

\* lines 401-406 and 441-442: the end of the word loop
EndOfWords ==
    /\ pc = "words"
    /\ item_idx > Len(segment_data.words)
    /\ IF current_line_words = <<>>
       THEN /\ LeaveSegment(Len(final_caption_blocks) > blocks_at_segment_start)
            /\ UNCHANGED <<final_caption_blocks, srt_sequence_number>>
       ELSE IF FlushRaises(current_line_words)
       THEN /\ LeaveSegment(FALSE)
            /\ UNCHANGED <<final_caption_blocks, srt_sequence_number>>
       ELSE /\ final_caption_blocks' = FlushedBlocks(current_line_words)
            /\ srt_sequence_number' =
                  NextSequenceNumber(srt_sequence_number, args.format)
            /\ LeaveSegment(TRUE)
    /\ UNCHANGED <<main_vars, transcription_response_obj, saved_successfully,
                   warnings, caption_source_is_paragraphs, segment_idx, segment_data,
                   blocks_at_segment_start, sentence_data_bound, caption_content,
                   file_vars>>

\* lines 455-457: an exception leaves the segment loop, return False
GeneralFailure ==
    /\ pc' = "returned"
    /\ saved_successfully' = FALSE

\* lines 278-285: the next paragraph.  When its start, end or sentences are
\* missing, the handler of line 306 prints sentence_data, which has no value
\* before the first sentence of the call: that NameError ends the call.
ProcessParagraph ==
    /\ pc = "segments"
    /\ caption_source_is_paragraphs
    /\ segment_idx < MaxSegments
    /\ \E p \in ParagraphPool :
        /\ segment_data' = p
        /\ segment_idx' = segment_idx + 1
        /\ blocks_at_segment_start' = Len(final_caption_blocks)
        /\ IF p.start.tag = "absent" \/ p.end.tag = "absent"
           THEN IF sentence_data_bound
                THEN /\ LeaveSegment(FALSE)
                     /\ UNCHANGED saved_successfully
                ELSE /\ GeneralFailure
                     /\ UNCHANGED <<processed_segments_count, item_idx,
                                    current_line_words, current_char_count>>
           ELSE /\ pc' = "sentences"
                /\ item_idx' = 1
                /\ UNCHANGED <<saved_successfully, processed_segments_count,
                               current_line_words, current_char_count>>
    /\ UNCHANGED <<main_vars, transcription_response_obj, warnings,
                   caption_source_is_paragraphs, final_caption_blocks,
                   srt_sequence_number, sentence_data_bound, caption_content, file_vars>>

\* lines 294-295: the sentence's own time, else the paragraph's
SentenceTime(sentence_attr, paragraph_attr) ==
    IF sentence_attr.tag = "absent" THEN paragraph_attr ELSE sentence_attr

\* lines 297-304: the block of one sentence
SentenceBlock(start_seconds, end_seconds, sentence_text, sequence_num, output_format) ==
    CaptionBlock(sequence_num, output_format,
                 format_timestamp(start_seconds, output_format = "srt"),
                 format_timestamp(end_seconds, output_format = "srt"),
                 sentence_text)

\* lines 287-305: one sentence of the paragraph
SentenceStep ==
    /\ pc = "sentences"
    /\ item_idx <= Len(segment_data.sentences)
    /\ sentence_data_bound' = TRUE
    /\ LET sentence_data == segment_data.sentences[item_idx]
           start_seconds == SentenceTime(sentence_data.start, segment_data.start)
           end_seconds   == SentenceTime(sentence_data.end, segment_data.end)
       IN  IF ~HasValue(sentence_data.text)
           THEN \* line 306-308: the rest of the paragraph is dropped
                /\ LeaveSegment(FALSE)
                /\ UNCHANGED <<final_caption_blocks, srt_sequence_number>>
           ELSE IF Strip(sentence_data.text.v) = <<>>
           THEN \* line 289-290
                /\ item_idx' = item_idx + 1
                /\ UNCHANGED <<pc, block_vars, current_line_words, current_char_count>>
           ELSE IF ~HasValue(start_seconds) \/ ~HasValue(end_seconds)
           THEN \* format_timestamp(None) raises TypeError: line 306-308
                /\ LeaveSegment(FALSE)
                /\ UNCHANGED <<final_caption_blocks, srt_sequence_number>>
           ELSE /\ final_caption_blocks' =
                      Append(final_caption_blocks,
                             SentenceBlock(start_seconds.v, end_seconds.v,
                                           Strip(sentence_data.text.v),
                                           srt_sequence_number, args.format))
                /\ srt_sequence_number' =
                      NextSequenceNumber(srt_sequence_number, args.format)
                /\ item_idx' = item_idx + 1
                /\ UNCHANGED <<pc, processed_segments_count, current_line_words,
                               current_char_count>>
    /\ UNCHANGED <<main_vars, transcription_response_obj, saved_successfully,
                   warnings, caption_source_is_paragraphs, segment_idx, segment_data,
                   blocks_at_segment_start, caption_content, file_vars>>

\* the end of the sentence loop and lines 441-442
EndOfSentences ==
    /\ pc = "sentences"
    /\ item_idx > Len(segment_data.sentences)
    /\ LeaveSegment(Len(final_caption_blocks) > blocks_at_segment_start)
    /\ UNCHANGED <<main_vars, transcription_response_obj, saved_successfully,
                   warnings, caption_source_is_paragraphs, final_caption_blocks,
                   srt_sequence_number, segment_idx, segment_data,
                   blocks_at_segment_start, sentence_data_bound, caption_content,
                   file_vars>>

\* (variant: a segment list that gave no block fails the call)
EndOfSegments_FailsWhenAllSkipped ==
    /\ pc = "segments"
    /\ segment_idx >= 1
    /\ warnings' = warnings \cup
          (IF processed_segments_count = 0 THEN {"all_skipped"} ELSE {})
    /\ caption_content' = CaptionContent(final_caption_blocks, args.format)
    /\ pc' = IF processed_segments_count = 0 THEN "returned" ELSE "write"
    /\ UNCHANGED <<main_vars, transcription_response_obj, saved_successfully,
                   caption_source_is_paragraphs, block_vars, segment_vars, file_vars>>

\* lines 444-453: the segment list is exhausted (it has segment_idx members)
EndOfSegments ==
    /\ pc = "segments"
    /\ segment_idx >= 1
    /\ warnings' = warnings \cup
          (IF processed_segments_count = 0 THEN {"all_skipped"} ELSE {})
    /\ caption_content' = CaptionContent(final_caption_blocks, args.format)
    /\ pc' = "write"
    /\ UNCHANGED <<main_vars, transcription_response_obj, saved_successfully,
                   caption_source_is_paragraphs, block_vars, segment_vars, file_vars>>

\* lines 459-475: the file is written, or the write fails
WriteFile ==
    /\ pc = "write"
    /\ \E ok \in BOOLEAN :
        /\ written' = IF ok THEN Val(caption_content) ELSE written
        /\ saved_successfully' = ok
    /\ pc' = "returned"
    /\ UNCHANGED <<main_vars, transcription_response_obj, warnings,
                   caption_source_is_paragraphs, block_vars, segment_vars,
                   caption_content, output_filename_final>>

\* (variant: a failed save is not counted)
SaveReturns_FailureUncounted ==
    /\ pc = "returned"
    /\ IF saved_successfully
       THEN /\ files_processed_successfully' = files_processed_successfully + 1
            /\ UNCHANGED files_failed
       ELSE UNCHANGED <<files_processed_successfully, files_failed>>
    /\ file_idx' = file_idx + 1
    /\ pc' = "loop"
    /\ saved_successfully' = FALSE
    /\ ClearSaveLocals
    /\ transcription_response_obj' = NoValue
    /\ UNCHANGED <<args, timestamp_vars, attempted, exit_status>>

\* lines 580-584: back in the batch loop
SaveReturns ==
    /\ pc = "returned"
    /\ IF saved_successfully
       THEN /\ files_processed_successfully' = files_processed_successfully + 1
            /\ UNCHANGED files_failed
       ELSE /\ files_failed' = files_failed + 1
            /\ UNCHANGED files_processed_successfully
    /\ file_idx' = file_idx + 1
    /\ pc' = "loop"
    /\ saved_successfully' = FALSE
    /\ ClearSaveLocals
    /\ transcription_response_obj' = NoValue
    /\ UNCHANGED <<args, timestamp_vars, attempted, exit_status>>

\* (variant: one failed file is tolerated)
ExitStatus_OffByOne(failed, succeeded, n_files) ==
    IF failed > 1 THEN 1
    ELSE IF succeeded = 0 /\ n_files > 0 THEN 1
    ELSE 0

\* lines 599-606
ExitStatus(failed, succeeded, n_files) ==
    IF failed > 0 THEN 1
    ELSE IF succeeded = 0 /\ n_files > 0 THEN 1
    ELSE 0

\* lines 594-606: the loop is over
Summary ==
    /\ pc = "loop"
    /\ file_idx > args.audio_file
    /\ exit_status' = Val(ExitStatus(files_failed, files_processed_successfully,
                                     args.audio_file))
    /\ pc' = "exited"
    /\ UNCHANGED <<args, timestamp_vars, file_idx, attempted, files_processed_successfully,
                   files_failed, transcription_response_obj, saved_successfully,
                   save_vars>>

Next ==
    \/ Transcribe
    \/ DummyCreationFails
    \/ TranscriptionFailed
    \/ SaveBegin
    \/ ProcessUtterance
    \/ WordStep
    \/ EndOfWords
    \/ ProcessParagraph
    \/ SentenceStep
    \/ EndOfSentences
    \/ EndOfSegments
    \/ WriteFile
    \/ SaveReturns
    \/ Summary

Spec == Init /\ [][Next]_vars

(***************************************************************************)
(* format_timestamp on its own: one call with an argument of the pool.     *)
(***************************************************************************)
TimestampInit ==
    /\ args \in {a \in ArgsPool :
                    /\ a.audio_file = 1
                    /\ a.output = PyNone
                    /\ ~a.paragraphs
                    /\ ~a.split_on_sentences
                    /\ a.max_caption_chars = DefaultMaxCaptionChars}
    /\ total_seconds \in TimestampPool
    /\ timestamp = NoValue
    /\ pc = "format_timestamp"
    /\ file_idx = 1
    /\ attempted = <<>>
    /\ files_processed_successfully = 0
    /\ files_failed = 0
    /\ exit_status = NoValue
    /\ transcription_response_obj = NoValue
    /\ saved_successfully = FALSE
    /\ SaveLocalsCleared

\* lines 17-27
FormatTimestamp ==
    /\ pc = "format_timestamp"
    /\ timestamp' = Val(format_timestamp(total_seconds, args.format = "srt"))
    /\ pc' = "formatted"
    /\ UNCHANGED <<args, total_seconds, file_idx, attempted,
                   files_processed_successfully, files_failed, exit_status,
                   transcription_response_obj, saved_successfully, save_vars>>

TimestampSpec == TimestampInit /\ [][FormatTimestamp]_vars

(***************************************************************************)
(* Properties.                                                             *)
(***************************************************************************)
\* The utterance loop stands behind segment_data: the utterance was handled
\* completely (or abandoned) and produced the blocks after
\* blocks_at_segment_start.
UtteranceHandled ==
    /\ pc = "segments"
    /\ segment_idx >= 1
    /\ ~caption_source_is_paragraphs

BlocksOfSegment == Len(final_caption_blocks) - blocks_at_segment_start

LastBlock == final_caption_blocks[Len(final_caption_blocks)]

IsBlockItem(item) == item.kind = "block"

\* The time a formatted timestamp denotes, in milliseconds.
TimestampMillis(ts) ==
    ts.hours * 3600000 + ts.minutes * 60000 + ts.seconds * 1000 + ts.milliseconds

\* The words of a text: its pieces between single spaces.
RECURSIVE SplitAtSpaces(_)
SplitAtSpaces(text) ==
    IF \A k \in 1..Len(text) : text[k] # " " THEN <<text>>
    ELSE LET k == CHOOSE j \in 1..Len(text) :
                     text[j] = " " /\ \A h \in 1..(j - 1) : text[h] # " "
         IN  <<SubSeq(text, 1, k - 1)>> \o SplitAtSpaces(SubSeq(text, k + 1, Len(text)))

\* An utterance with text, a start and an end that is not before the start.
WellFormedUtterance(u) ==
    /\ HasValue(u.transcript)
    /\ Strip(u.transcript.v) # <<>>
    /\ HasValue(u.start)
    /\ HasValue(u.end)
    /\ u.start.v <= u.end.v

\* C1: an utterance with text and without a word list becomes exactly one
\* block, which carries the utterance's stripped text and the utterance's own
\* start and end.
C1_WordlessUtteranceIsOneBlock ==
    (UtteranceHandled /\ WellFormedUtterance(segment_data) /\ segment_data.words = <<>>)
    => /\ BlocksOfSegment = 1
       /\ LastBlock.text = Strip(segment_data.transcript.v)
       /\ TimestampMillis(LastBlock.start_ts) = segment_data.start.v
       /\ TimestampMillis(LastBlock.end_ts) = segment_data.end.v

\* C2: every caption block in the output has a non-empty text.
C2_BlocksHaveText ==
    \A k \in 1..Len(final_caption_blocks) : final_caption_blocks[k].text # <<>>

\* C3: every caption block ends at or after its start.
C3_EndNotBeforeStart ==
    \A k \in 1..Len(final_caption_blocks) :
        TimestampMillis(final_caption_blocks[k].end_ts)
            >= TimestampMillis(final_caption_blocks[k].start_ts)

\* C4: in SRT output the blocks are numbered 1, 2, ..., n in output order, at
\* every point of the segment loop and in the content that is written.
C4_SrtIndicesSequential ==
    args.format = "srt" =>
        /\ \A k \in 1..Len(final_caption_blocks) : final_caption_blocks[k].num = k
        /\ srt_sequence_number = Len(final_caption_blocks) + 1
        /\ LET items == SelectSeq(caption_content, IsBlockItem)
           IN  \A k \in 1..Len(items) : items[k].block.num = k
        /\ written.tag = "val" =>
              LET items == SelectSeq(written.v, IsBlockItem)
              IN  /\ Len(items) = Len(final_caption_blocks)
                  /\ \A k \in 1..Len(items) : items[k].block.num = k

\* C4 witness: an SRT file with several blocks is written although a segment
\* was skipped or abandoned.
C4_Witness ==
    /\ args.format = "srt"
    /\ pc = "returned"
    /\ saved_successfully
    /\ written.tag = "val"
    /\ Len(final_caption_blocks) >= 2
    /\ processed_segments_count < segment_idx

\* C5: a WebVTT file that save_caption_file wrote starts with the WEBVTT line
\* and a blank line.
C5_WebVttStartsWithHeader ==
    (pc = "returned" /\ saved_successfully /\ args.format = "webvtt")
    => /\ written.tag = "val"
       /\ Len(written.v) >= 2
       /\ written.v[1].kind = "header"
       /\ written.v[2].kind = "blank"

\* The response has no results data: no .results (and it is not the results
\* data itself), or .results is None.
NoResultsData(resp) ==
    \/ resp.results = "none"
    \/ resp.results = "absent" /\ ~resp.direct

\* The response has no utterance list at either place and no paragraph list.
NoSegmentData(resp) ==
    /\ resp.utterances.tag # "list"
    /\ resp.nested.tag # "list"
    /\ resp.paragraphs.tag # "list"

C7_FilesAttemptedOnceInOrder ==
    /\ attempted = [k \in 1..Len(attempted) |-> k]
    /\ Len(attempted) = (IF pc \in {"loop", "exited"} THEN file_idx - 1 ELSE file_idx)
    /\ file_idx <= args.audio_file + 1
    /\ pc = "exited" => Len(attempted) = args.audio_file
    /\ pc = "loop" => (SaveLocalsCleared /\ transcription_response_obj.tag = "unset")

\* C7 witness: the second file is in work after the first one failed.
C7_Witness ==
    /\ pc = "transcribed"
    /\ file_idx = 2
    /\ files_failed = 1
    /\ attempted = <<1, 2>>

\* C8: the exit status is 0 exactly when every file was saved successfully,
\* and 1 when a file failed or none succeeded.
C8_ExitStatus ==
    pc = "exited" =>
        /\ exit_status.v \in {0, 1}
        /\ exit_status.v = 0 <=> (/\ files_failed = 0
                                  /\ files_processed_successfully = args.audio_file)
        /\ (files_failed > 0 \/ files_processed_successfully = 0)
              => exit_status.v = 1

\* C8 witness: a batch with a saved file and a failed file ends with status 1.
C8_Witness ==
    /\ pc = "exited"
    /\ files_processed_successfully >= 1
    /\ files_failed >= 1
    /\ exit_status.v = 1

\* Every word has a text, a start and an end, and the words joined by single
\* spaces are the utterance's text.
WellFormedWords(u) ==
    /\ \A k \in 1..Len(u.words) :
          /\ HasValue(u.words[k].punctuated_word) \/ HasValue(u.words[k].word)
          /\ HasValue(u.words[k].start)
          /\ HasValue(u.words[k].end)
    /\ u.words # <<>> =>
          Strip(u.transcript.v) =
              JoinSpace([k \in 1..Len(u.words) |-> WordTextForLine(u.words[k])])

\* C9 as stated: an utterance whose text is not longer than max_caption_chars
\* becomes exactly one block, for any word list and any options (it is stated
\* here for utterances and words that lack no field and agree on the text).
C9_ShortUtteranceIsOneBlock ==
    (/\ UtteranceHandled
     /\ WellFormedUtterance(segment_data)
     /\ WellFormedWords(segment_data)
     /\ Len(Strip(segment_data.transcript.v)) <= args.max_caption_chars)
    => BlocksOfSegment = 1

\* C9 amended: such an utterance becomes exactly one block when
\* split_on_sentences is off or the utterance has no word list.
C9_ShortUtteranceIsOneBlockUnlessSplit ==
    (/\ UtteranceHandled
     /\ WellFormedUtterance(segment_data)
     /\ Len(Strip(segment_data.transcript.v)) <= args.max_caption_chars
     /\ (~args.split_on_sentences \/ segment_data.words = <<>>))
    => BlocksOfSegment = 1

\* C9 witness: a short utterance with a word list, split_on_sentences off, and
\* its one block.
C9_Witness ==
    /\ UtteranceHandled
    /\ WellFormedUtterance(segment_data)
    /\ Len(Strip(segment_data.transcript.v)) <= args.max_caption_chars
    /\ ~args.split_on_sentences
    /\ Len(segment_data.words) >= 2
    /\ BlocksOfSegment = 1

HelloWorld == <<"H","e","l","l","o"," ","w","o","r","l","d",".">>
NextSentence == <<"N","e","x","t"," ","s","e","n","t","e","n","c","e",".">>

\* the word loop is about to handle a sentence-terminal word with both times
AtSentenceWord ==
    /\ pc = "words"
    /\ item_idx <= Len(segment_data.words)
    /\ args.split_on_sentences
    /\ ~WordSkipped(segment_data.words[item_idx])
    /\ EndsSentence(WordTextForLine(segment_data.words[item_idx]))

\* C10: with split_on_sentences, a sentence-terminal word is appended to the
\* buffer and the buffer is flushed at once, whatever its length: the buffer
\* never keeps such a word, a block that is emitted then ends with that word,
\* no block has such a word before its last word, and the words Hello, world.,
\* Next, sentence. with max_caption_chars = 100 give the blocks 'Hello world.'
\* and 'Next sentence.'.
C10_SentenceWordEndsItsBlock ==
    /\ [](args.split_on_sentences /\ ~caption_source_is_paragraphs =>
            /\ \A k \in 1..Len(current_line_words) :
                  ~EndsSentence(WordTextForLine(current_line_words[k]))
            /\ \A k \in 1..Len(final_caption_blocks) :
                  LET ws == SplitAtSpaces(final_caption_blocks[k].text)
                  IN  \A j \in 1..(Len(ws) - 1) : ~EndsSentence(ws[j])
            /\ (/\ UtteranceHandled
                /\ segment_data.words = ExampleWords
                /\ args.max_caption_chars = DefaultMaxCaptionChars)
               => /\ BlocksOfSegment = 2
                  /\ final_caption_blocks[Len(final_caption_blocks) - 1].text = HelloWorld
                  /\ LastBlock.text = NextSentence)
    /\ [][AtSentenceWord =>
            /\ current_line_words' = <<>>
            /\ final_caption_blocks' # final_caption_blocks =>
                  /\ Len(final_caption_blocks') = Len(final_caption_blocks) + 1
                  /\ final_caption_blocks'[Len(final_caption_blocks')].text =
                        JoinSpace([k \in 1..(Len(current_line_words) + 1) |->
                            IF k <= Len(current_line_words)
                            THEN WordTextForLine(current_line_words[k])
                            ELSE WordTextForLine(segment_data.words[item_idx])])]_vars

\* C10 witness: a block of several words that ends a sentence and is longer
\* than max_caption_chars.
C10_Witness ==
    /\ args.split_on_sentences
    /\ ~caption_source_is_paragraphs
    /\ \E k \in 1..Len(final_caption_blocks) :
          /\ Len(final_caption_blocks[k].text) > args.max_caption_chars
          /\ Len(SplitAtSpaces(final_caption_blocks[k].text)) >= 2
          /\ EndsSentence(final_caption_blocks[k].text)

\* the texts of the words of a buffer, joined by single spaces
JoinedText(line_words) ==
    JoinSpace([k \in 1..Len(line_words) |-> WordTextForLine(line_words[k])])

\* a step of the word loop that appends a block
BlockAppended ==
    /\ pc = "words"
    /\ Len(final_caption_blocks') = Len(final_caption_blocks) + 1

\* C11: with split_on_sentences off, a block of the word-splitting path has a
\* text of at most max_caption_chars characters unless it is made of a single
\* word: the buffer never holds two or more words whose joined text is longer
\* than the limit, and every block that is appended is the joined text of the
\* buffer.
C11_BlockWithinLimit ==
    /\ []((pc = "words" /\ ~args.split_on_sentences /\ Len(current_line_words) >= 2)
            => Len(JoinedText(current_line_words)) <= args.max_caption_chars)
    /\ [][(BlockAppended /\ ~args.split_on_sentences) =>
            LET text == final_caption_blocks'[Len(final_caption_blocks')].text
            IN  /\ text = JoinedText(current_line_words)
                /\ Len(text) <= args.max_caption_chars
                     \/ Len(current_line_words) = 1]_vars

\* C11 witness: the words a, bc, d, e under a limit of 4 characters gave three
\* blocks, the last one made of the two words d and e.
C11_Witness ==
    /\ UtteranceHandled
    /\ ~args.split_on_sentences
    /\ args.max_caption_chars = SmallMaxCaptionChars
    /\ segment_data.words = PackingWords
    /\ BlocksOfSegment = 3
    /\ LastBlock.text = <<"d", " ", "e">>

\* the response has no paragraph structure, or an empty paragraph list
NoParagraphList(resp) ==
    resp.paragraphs.tag # "list" \/ ~resp.paragraphs.nonempty

\* C12: with the paragraphs option on and no paragraph list in the response,
\* save_caption_file takes the step it takes with the option off, for the same
\* response and the same other options: it reaches the same position with the
\* same locals, blocks and content, and only prints the fallback warning in
\* addition.  From there on it is in utterance mode: the sentence loop is
\* never entered and the content it writes is the content of its utterance
\* blocks.
C12_ParagraphFallback ==
    /\ [][(/\ pc = "transcribed"
           /\ transcription_response_obj.tag = "response"
           /\ args.paragraphs
           /\ NoParagraphList(transcription_response_obj))
          => /\ SaveBeginStep(FALSE, warnings')
             /\ pc' \in {"segments", "write"} =>
                   /\ "paragraph_fallback" \in warnings'
                   /\ warnings' \ {"paragraph_fallback"} =
                         SaveWarnings(transcription_response_obj, FALSE)
                   /\ ~caption_source_is_paragraphs']_vars
    /\ [](pc = "sentences" => caption_source_is_paragraphs)
    /\ []((/\ args.paragraphs
           /\ ~caption_source_is_paragraphs
           /\ pc \in {"segments", "words", "write"})
          => /\ "paragraph_fallback" \in warnings
             /\ pc = "write" =>
                   caption_content =
                      IF "no_segments" \in warnings THEN NoSegmentsContent(args.format)
                      ELSE CaptionContent(final_caption_blocks, args.format))
    /\ [][(pc = "write" /\ pc' = "returned" /\ saved_successfully')
          => written' = Val(caption_content)]_vars

\* C12 witness: the option was on, the call fell back to the utterances and
\* wrote their blocks.
C12_Witness ==
    /\ args.paragraphs
    /\ "paragraph_fallback" \in warnings
    /\ pc = "returned"
    /\ saved_successfully
    /\ written.tag = "val"
    /\ Len(final_caption_blocks) >= 1

\* the utterance behind segment_data went through the word loop
SplitPathHandled ==
    /\ UtteranceHandled
    /\ HasValue(segment_data.transcript)
    /\ Strip(segment_data.transcript.v) # <<>>
    /\ ~SimplePath(Strip(segment_data.transcript.v), segment_data.words,
                   args.split_on_sentences, args.max_caption_chars)

\* every word of the utterance has a text
WordsHaveText(u) ==
    \A k \in 1..Len(u.words) :
        HasValue(u.words[k].punctuated_word) \/ HasValue(u.words[k].word)

\* the blocks the utterance behind segment_data produced
SegmentBlocks ==
    SubSeq(final_caption_blocks, blocks_at_segment_start + 1, Len(final_caption_blocks))

\* the text is one of the words of one of the blocks
TextInBlocks(text, blocks) ==
    \E k \in 1..Len(blocks) :
        \E j \in 1..Len(SplitAtSpaces(blocks[k].text)) :
            SplitAtSpaces(blocks[k].text)[j] = text

\* C13: in the word-splitting path a word with a start and without an end is
\* kept: its text is in a block of its utterance, and a block it ends has the
\* word's start as its end.
C13_WordWithoutEndIsKept ==
    (SplitPathHandled /\ WordsHaveText(segment_data))
    => \A k \in 1..Len(segment_data.words) :
          LET w == segment_data.words[k]
          IN  (HasValue(w.start) /\ ~HasValue(w.end))
              => TextInBlocks(WordTextForLine(w), SegmentBlocks)

\* C14: for a whole number t >= 0 of milliseconds format_timestamp gives
\* HH = t div 3600000 (not reduced modulo 24), MM = (t div 60000) mod 60,
\* SS = (t div 1000) mod 60 and mmm = t mod 1000, with ',' for SRT and '.' for
\* WebVTT; for a negative time it gives the all-zero timestamp.
C14_TimestampFields ==
    pc = "formatted" =>
        LET t == IF total_seconds < 0 THEN 0 ELSE total_seconds
        IN  timestamp.v = [hours        |-> t \div 3600000,
                           minutes      |-> (t \div 60000) % 60,
                           seconds      |-> (t \div 1000) % 60,
                           milliseconds |-> t % 1000,
                           separator    |-> IF args.format = "srt" THEN "," ELSE "."]

\* a paragraph without its start or its end
MalformedParagraph(p) == p.start.tag = "absent" \/ p.end.tag = "absent"

\* C15: a response with results data whose segments give no caption block
\* does not fail the call.  The preamble fails only when the directory of the
\* output path cannot be created; the segment loop ends the call only for a
\* paragraph that lacks its start or end (the response is not well-formed
\* then); with no block the content to write holds no block and is empty for
\* SRT, and a warning was printed; the call returns success exactly when the
\* file was written, with that content.
C15_ZeroBlocksStillSucceeds ==
    /\ [][(/\ pc = "transcribed"
           /\ transcription_response_obj.tag = "response"
           /\ ~NoResultsData(transcription_response_obj)
           /\ pc' = "returned")
          => "mkdir_failed" \in warnings']_vars
    /\ [][(pc \in {"segments", "words", "sentences"} /\ pc' = "returned")
          => (caption_source_is_paragraphs /\ MalformedParagraph(segment_data'))]_vars
    /\ []((pc = "write" /\ final_caption_blocks = <<>>)
          => /\ SelectSeq(caption_content, IsBlockItem) = <<>>
             /\ args.format = "srt" => caption_content = <<>>
             /\ "no_segments" \in warnings \/ "all_skipped" \in warnings)
    /\ [][(pc = "write" /\ pc' = "returned")
          => /\ saved_successfully' <=> written'.tag = "val"
             /\ saved_successfully' => written' = Val(caption_content)]_vars
    /\ []((pc = "returned" /\ written.tag = "val") => saved_successfully)

\* C15 witness: every utterance of a non-empty list was skipped, and the call
\* wrote an empty SRT file and returned success.
C15_Witness ==
    /\ pc = "returned"
    /\ saved_successfully
    /\ "all_skipped" \in warnings
    /\ segment_idx >= 2
    /\ final_caption_blocks = <<>>
    /\ args.format = "srt"
    /\ written = Val(<<>>)

\* save_caption_file has settled its output path and has not returned to the
\* batch loop
PathSettled == pc \in {"segments", "words", "sentences", "write", "returned"}

\* C16: the caption file's path is the --output path exactly when one input
\* file is given and --output is given; in every other case, and for every
\* file of a batch of two or more, it is the path of the file's own input with
\* the format as its extension; the file that is written is written there.
C16_OverrideOnlyForSingleFile ==
    /\ [](PathSettled =>
            /\ output_filename_final.kind = "output"
                  <=> (args.audio_file = 1 /\ args.output.tag = "val")
            /\ output_filename_final.kind = "output"
                  => output_filename_final = args.output.v
            /\ output_filename_final.kind # "output"
                  => output_filename_final = InputPath(file_idx, args.format)
            /\ args.audio_file >= 2
                  => output_filename_final = InputPath(attempted[Len(attempted)],
                                                       args.format))
    /\ [][pc = "write" => output_filename_final' = output_filename_final]_vars

\* C16 witness: a batch of two files with --output; both files were written,
\* the second one to its own input's path.
C16_Witness ==
    /\ args.audio_file = 2
    /\ args.output.tag = "val"
    /\ file_idx = 2
    /\ files_processed_successfully = 1
    /\ pc = "returned"
    /\ saved_successfully
    /\ written.tag = "val"
    /\ output_filename_final = InputPath(2, args.format)

\* the word loop is about to handle a word that has both times
AtTimedWord ==
    /\ pc = "words"
    /\ item_idx <= Len(segment_data.words)
    /\ ~WordSkipped(segment_data.words[item_idx])

\* C17: with split_on_sentences off, the buffer is flushed before a word is
\* added exactly when the buffer is not empty and the buffered words and the
\* word, joined by single spaces, are longer than max_caption_chars.
C17_FlushIffTooLong ==
    [][(AtTimedWord /\ ~args.split_on_sentences /\ WordsHaveText(segment_data))
       => (BlockAppended
           <=> /\ current_line_words # <<>>
               /\ Len(JoinedText(Append(current_line_words,
                                        segment_data.words[item_idx])))
                     > args.max_caption_chars)]_vars

\* the words a step of the word loop turns into a block: the buffer, with the
\* current word when that word ends a sentence
FlushedWords ==
    IF /\ AtTimedWord
       /\ args.split_on_sentences
       /\ EndsSentence(WordTextForLine(segment_data.words[item_idx]))
    THEN Append(current_line_words, segment_data.words[item_idx])
    ELSE current_line_words

\* C18: a block of the word-splitting path starts at the start of the first
\* buffered word, ends at the end of the last buffered word (at the start
\* when that end is smaller), and its text is the buffered words' texts
\* joined by single spaces.
C18_BlockSpansItsWords ==
    [][BlockAppended =>
          LET ws     == FlushedWords
              first  == ws[1].start.v
              last   == ws[Len(ws)].end.v
              block  == final_caption_blocks'[Len(final_caption_blocks')]
          IN  /\ TimestampMillis(block.start_ts) = first
              /\ TimestampMillis(block.end_ts) = (IF last < first THEN first ELSE last)
              /\ block.text = JoinedText(ws)]_vars

\* the word has both times
IsTimedWord(w) == ~WordSkipped(w)

\* the texts of a sequence of blocks
BlockTexts(blocks) == [k \in 1..Len(blocks) |-> blocks[k].text]

\* C19: the blocks of an utterance of the word-splitting path, read in output
\* order, hold the words that have both times, each once and in their order;
\* and blocks are only ever appended, so the blocks of an earlier segment
\* precede those of a later one.
C19_WordsKeptInOrder ==
    /\ [](SplitPathHandled
          => JoinSpace(BlockTexts(SegmentBlocks)) =
                JoinedText(SelectSeq(segment_data.words, IsTimedWord)))
    /\ [][pc' \in {"segments", "words", "sentences", "write", "returned"}
          => /\ Len(final_caption_blocks') >= Len(final_caption_blocks)
             /\ SubSeq(final_caption_blocks', 1, Len(final_caption_blocks))
                   = final_caption_blocks]_vars

\* C20: every input file increments exactly one of the two counters, once:
\* the counters sum to the number of files the loop has finished, a step
\* finishes a file exactly when it adds one to one counter and leaves the
\* other, and at the summary the counters sum to the number of input files.
C20_EachFileCountedOnce ==
    /\ [](files_processed_successfully + files_failed = file_idx - 1)
    /\ [](pc = "exited"
          => files_processed_successfully + files_failed = args.audio_file)
    /\ [][/\ file_idx' \in {file_idx, file_idx + 1}
          /\ file_idx' = file_idx + 1
                <=> \/ /\ files_failed' = files_failed + 1
                       /\ files_processed_successfully' = files_processed_successfully
                    \/ /\ files_processed_successfully' = files_processed_successfully + 1
                       /\ files_failed' = files_failed
          /\ file_idx' = file_idx
                => /\ files_failed' = files_failed
                   /\ files_processed_successfully' = files_processed_successfully]_vars

\* C20 witness: the summary of a batch of two files, one saved and one failed.
C20_Witness ==
    /\ pc = "exited"
    /\ args.audio_file = 2
    /\ attempted = <<1, 2>>
    /\ files_processed_successfully = 1
    /\ files_failed = 1

====
